---- MODULE Spec2Model ----
(***************************************************************************)
(* A model of the TOON encoder of format-as-toon (src/src/lib.rs).         *)
(*                                                                         *)
(* A Rust String is modelled as a sequence of characters, each character   *)
(* a one-character TLA+ string; `out.push_str(x)` is the concatenation     *)
(* out \o x, so every encoder is an operator that returns the text it      *)
(* appends to the buffer it was handed.                                    *)
(*                                                                         *)
(* A serde_json::Value is a record tagged by t:                            *)
(*   [t |-> "null"]   [t |-> "bool", b |-> BOOLEAN]   [t |-> "num", n |-> N]*)
(*   [t |-> "str", s |-> String]                                           *)
(*   [t |-> "obj", e |-> sequence of <<key, value>> with distinct keys]     *)
(*   [t |-> "arr", a |-> sequence of values]                               *)
(* The entries of an object are in the map's iteration order.              *)
(***************************************************************************)
EXTENDS Integers, Sequences, FiniteSets, TLC

VARIABLES
    value,   \* the tree handed to the encoder
    opts,    \* the ToonOptions of the call
    out,     \* the text the operation returned (empty before it ran)
    pc       \* "start" before the operation ran, then the operation's name

vars == <<value, opts, out, pc>>

----------------------------------------------------------------------------
(* Characters and strings *)

NL == "\n"
CR == "\r"
TAB == "\t"
FF == "\f"
QUOTE == "\""
BACKSLASH == "\\"

Digit == {"0", "1", "2", "3", "4", "5", "6", "7", "8", "9"}

DigitChars == <<"0", "1", "2", "3", "4", "5", "6", "7", "8", "9">>

Lower == {"a", "b", "c", "d", "e", "f", "g", "h", "i", "j", "k", "l", "m",
          "n", "o", "p", "q", "r", "s", "t", "u", "v", "w", "x", "y", "z"}

Upper == {"A", "B", "C", "D", "E", "F", "G", "H", "I", "J", "K", "L", "M",
          "N", "O", "P", "Q", "R", "S", "T", "U", "V", "W", "X", "Y", "Z"}

\* char::is_ascii_alphabetic
is_ascii_alphabetic(c) == c \in Lower \cup Upper

\* char::is_ascii_alphanumeric
is_ascii_alphanumeric(c) == c \in Lower \cup Upper \cup Digit

\* char::is_whitespace, on the characters of the model's alphabet: the
\* Unicode White_Space characters U+0009..U+000D and U+0020.
is_whitespace(c) == c \in {" ", TAB, NL, CR, FF}

STR_true == <<"t", "r", "u", "e">>
STR_false == <<"f", "a", "l", "s", "e">>
STR_null == <<"n", "u", "l", "l">>

\* " ".repeat(n)
RECURSIVE repeat(_, _)
repeat(c, n) == IF n <= 0 THEN <<>> ELSE <<c>> \o repeat(c, n - 1)

\* [String]::join(sep)
RECURSIVE join(_, _)
join(parts, sep) ==
    IF parts = <<>> THEN <<>>
    ELSE IF Len(parts) = 1 THEN parts[1]
    ELSE parts[1] \o sep \o join(Tail(parts), sep)

\* the pieces pushed onto the buffer one after the other
RECURSIVE concat(_)
concat(parts) == IF parts = <<>> THEN <<>> ELSE parts[1] \o concat(Tail(parts))

\* str::trim_start: drops the leading characters that are whitespace
RECURSIVE trim_start(_)
trim_start(s) ==
    IF s # <<>> /\ is_whitespace(s[1]) THEN trim_start(Tail(s)) ELSE s

\* str::find('\n'): the 1-based index of the first newline, 0 when none
RECURSIVE find_from(_, _, _)
find_from(s, c, i) ==
    IF i > Len(s) THEN 0
    ELSE IF s[i] = c THEN i
    ELSE find_from(s, c, i + 1)

find(s, c) == find_from(s, c, 1)

----------------------------------------------------------------------------
(* Delimiter *)

Delimiters == {"Comma", "Tab", "Pipe"}

\* Delimiter::char
delimiter_char(d) ==
    CASE d = "Comma" -> ","
      [] d = "Tab" -> TAB
      [] d = "Pipe" -> "|"

\* Delimiter::header_symbol
header_symbol(d) ==
    CASE d = "Comma" -> <<>>
      [] d = "Tab" -> <<TAB>>
      [] d = "Pipe" -> <<"|">>

\* ToonOptions::default().flatten_depth is usize::MAX. The model compares it
\* with chain lengths only, so it stands for a depth no chain reaches.
USIZE_MAX == 2147483647

----------------------------------------------------------------------------
(* Quoting *)

is_valid_identifier(s) ==
    /\ s # <<>>
    /\ (is_ascii_alphabetic(s[1]) \/ s[1] = "_")
    /\ \A i \in 2..Len(s) : is_ascii_alphanumeric(s[i]) \/ s[i] = "_"

\* the `while i < b.len() && b[i].is_ascii_digit() { i += 1 }` loops of
\* looks_like_number; indexes are 1-based in the model
RECURSIVE skip_digits(_, _)
skip_digits(b, i) ==
    IF i <= Len(b) /\ b[i] \in Digit THEN skip_digits(b, i + 1) ELSE i

looks_like_number(s) ==
    LET n == Len(s)
        i1 == IF 1 <= n /\ s[1] = "-" THEN 2 ELSE 1
    IN  IF i1 > n \/ s[i1] \notin Digit THEN FALSE
        ELSE
        LET i2 == skip_digits(s, i1)
            hasDot == i2 <= n /\ s[i2] = "."
        IN  IF hasDot /\ (i2 + 1 > n \/ s[i2 + 1] \notin Digit) THEN FALSE
            ELSE
            LET i3 == IF hasDot THEN skip_digits(s, i2 + 1) ELSE i2
                hasExp == i3 <= n /\ s[i3] \in {"e", "E"}
                i4 == IF hasExp THEN i3 + 1 ELSE i3
                i5 == IF hasExp /\ i4 <= n /\ s[i4] \in {"+", "-"}
                      THEN i4 + 1 ELSE i4
            IN  IF hasExp /\ (i5 > n \/ s[i5] \notin Digit) THEN FALSE
                ELSE (IF hasExp THEN skip_digits(s, i5) ELSE i3) = n + 1

\* needs_quoting with the test for the literals true, false and null left out
needs_quoting_no_literals(s, delimiter) ==
    \/ s = <<>>
    \/ s[1] = "-"
    \/ looks_like_number(s)
    \/ (Len(s) > 1 /\ s[1] = "0" /\ s[2] \in Digit)
    \/ s[1] = " "
    \/ s[Len(s)] = " "
    \/ \E i \in 1..Len(s) :
          \/ s[i] \in {":", QUOTE, BACKSLASH, "[", "]", "{", "}", NL, CR, TAB}
          \/ s[i] = delimiter_char(delimiter)

needs_quoting(s, delimiter) ==
    \/ s = <<>>
    \/ s \in {STR_true, STR_false, STR_null}
    \/ s[1] = "-"
    \/ looks_like_number(s)
    \/ (Len(s) > 1 /\ s[1] = "0" /\ s[2] \in Digit)
    \/ s[1] = " "
    \/ s[Len(s)] = " "
    \/ \E i \in 1..Len(s) :
          \/ s[i] \in {":", QUOTE, BACKSLASH, "[", "]", "{", "}", NL, CR, TAB}
          \/ s[i] = delimiter_char(delimiter)

\* escape_char with the newline passed through
escape_char_raw_newline(c) ==
    CASE c = BACKSLASH -> <<BACKSLASH, BACKSLASH>>
      [] c = QUOTE -> <<BACKSLASH, QUOTE>>
      [] c = CR -> <<BACKSLASH, "r">>
      [] c = TAB -> <<BACKSLASH, "t">>
      [] OTHER -> <<c>>

escape_char(c) ==
    CASE c = BACKSLASH -> <<BACKSLASH, BACKSLASH>>
      [] c = QUOTE -> <<BACKSLASH, QUOTE>>
      [] c = NL -> <<BACKSLASH, "n">>
      [] c = CR -> <<BACKSLASH, "r">>
      [] c = TAB -> <<BACKSLASH, "t">>
      [] OTHER -> <<c>>

RECURSIVE escape_string(_)
escape_string(s) ==
    IF s = <<>> THEN <<>> ELSE escape_char(s[1]) \o escape_string(Tail(s))

format_key(key, delimiter) ==
    IF needs_quoting(key, delimiter)
    THEN <<QUOTE>> \o escape_string(key) \o <<QUOTE>>
    ELSE key

----------------------------------------------------------------------------
(* Numbers *)

(***************************************************************************)
(* A serde_json::Number is [k, neg, mag, frac]:                            *)
(*   k = "PosInt": the u64 mag;  k = "NegInt": the negative i64 -mag;      *)
(*   k = "Float":  the f64 nearest to the decimal (-1)^neg * mag.frac.     *)
(* mag is an unsigned integer written in binary, most significant bit      *)
(* first, without leading zeros (zero is <<>>), so that 64-bit values keep *)
(* their width; frac is the sequence of decimal digits after the point,    *)
(* without trailing zeros. An f64 has the same shape with k = "f64". The   *)
(* floats of the model have at most 15 significant decimal digits and a    *)
(* magnitude in [1e-5, 1e15), or are zero: such a decimal is the shortest  *)
(* decimal that reads back as its f64, and an integral one is exact.       *)
(***************************************************************************)

F64_MANTISSA_BITS == 53

I64_BITS == 63

\* the binary digits of a natural number that fits the checker's integers
RECURSIVE BitsOf(_)
BitsOf(n) == IF n = 0 THEN <<>> ELSE BitsOf(n \div 2) \o <<n % 2>>

\* 2^e + d, for 0 <= d < 2^e
Pow2Plus(e, d) ==
    LET low == BitsOf(d)
    IN  <<1>> \o [i \in 1..(e - Len(low)) |-> 0] \o low

\* binary increment
RECURSIVE bits_inc(_)
bits_inc(b) ==
    IF b = <<>> THEN <<1>>
    ELSE IF b[Len(b)] = 0 THEN SubSeq(b, 1, Len(b) - 1) \o <<1>>
    ELSE bits_inc(SubSeq(b, 1, Len(b) - 1)) \o <<0>>

\* `u64 as f64` / `i64 as f64` on the magnitude: round to nearest, ties to
\* even, at 53 significant bits
round_to_f64(b) ==
    IF Len(b) <= F64_MANTISSA_BITS THEN b
    ELSE
    LET keep == SubSeq(b, 1, F64_MANTISSA_BITS)
        rest == SubSeq(b, F64_MANTISSA_BITS + 1, Len(b))
        tailOnes == \E i \in 2..Len(rest) : rest[i] = 1
        up == rest[1] = 1 /\ (tailOnes \/ keep[F64_MANTISSA_BITS] = 1)
        zeros == [i \in 1..Len(rest) |-> 0]
    IN  IF up THEN bits_inc(keep) \o zeros ELSE keep \o zeros

\* serde_json::Number::as_f64
as_f64(n) ==
    IF n.k = "Float"
    THEN [k |-> "f64", neg |-> n.neg, mag |-> n.mag, frac |-> n.frac]
    ELSE [k |-> "f64", neg |-> n.neg, mag |-> round_to_f64(n.mag), frac |-> <<>>]

\* the value of at most 16 bits
RECURSIVE bits_value(_)
bits_value(b) ==
    IF b = <<>> THEN 0 ELSE 2 * bits_value(SubSeq(b, 1, Len(b) - 1)) + b[Len(b)]

\* m * ds + c on decimal digits, least significant digit first
RECURSIVE mul_add(_, _, _)
mul_add(ds, m, c) ==
    IF ds = <<>>
    THEN (IF c = 0 THEN <<>> ELSE <<c % 10>> \o mul_add(<<>>, m, c \div 10))
    ELSE LET t == m * ds[1] + c
         IN  <<t % 10>> \o mul_add(Tail(ds), m, t \div 10)

\* the decimal digits of a binary integer, least significant digit first,
\* sixteen bits at a time
RECURSIVE decimal_le(_)
decimal_le(b) ==
    IF Len(b) <= 16 THEN mul_add(<<>>, 1, bits_value(b))
    ELSE mul_add(decimal_le(SubSeq(b, 1, Len(b) - 16)), 65536,
                 bits_value(SubSeq(b, Len(b) - 15, Len(b))))

\* the decimal text of an unsigned integer (itoa)
decimal(b) ==
    LET ds == decimal_le(b)
    IN  IF ds = <<>> THEN <<"0">>
        ELSE [i \in 1..Len(ds) |-> DigitChars[ds[Len(ds) + 1 - i] + 1]]

\* format!("{}", f as i64), for an integral f with |f| < 2^63
fmt_i64(f) == (IF f.neg /\ f.mag # <<>> THEN <<"-">> ELSE <<>>) \o decimal(f.mag)

\* format!("{f}"): the shortest decimal that reads back as f, never with an
\* exponent. On the f64s of the model that decimal is mag.frac itself.
fmt_f64(f) ==
    (IF f.neg THEN <<"-">> ELSE <<>>)
        \o decimal(f.mag)
        \o (IF f.frac = <<>> THEN <<>> ELSE <<".">> \o f.frac)

\* A serde_json::Number is finite by construction, so the NaN/infinite
\* branch of format_number is never taken; format!("{f}") never prints an
\* exponent, so neither is the fixed-point branch.
format_number(n) ==
    LET f == as_f64(n)
    IN  IF f.mag = <<>> /\ f.frac = <<>> THEN <<"0">>
        ELSE IF f.frac = <<>> /\ Len(f.mag) <= I64_BITS THEN fmt_i64(f)
        ELSE fmt_f64(f)

\* Number's Display / Serialize (itoa for the integers, ryu for the floats)
number_to_string(n) ==
    IF n.k = "Float"
    THEN (IF n.neg THEN <<"-">> ELSE <<>>)
            \o decimal(n.mag) \o <<".">>
            \o (IF n.frac = <<>> THEN <<"0">> ELSE n.frac)
    ELSE (IF n.neg THEN <<"-">> ELSE <<>>) \o decimal(n.mag)

----------------------------------------------------------------------------
(* Values *)

Null == [t |-> "null"]
Bool(b) == [t |-> "bool", b |-> b]
Num(n) == [t |-> "num", n |-> n]
Str(s) == [t |-> "str", s |-> s]
Obj(e) == [t |-> "obj", e |-> e]
Arr(a) == [t |-> "arr", a |-> a]

PosInt(b) == [k |-> "PosInt", neg |-> FALSE, mag |-> b, frac |-> <<>>]
NegInt(b) == [k |-> "NegInt", neg |-> TRUE, mag |-> b, frac |-> <<>>]
Float(neg, b, frac) == [k |-> "Float", neg |-> neg, mag |-> b, frac |-> frac]

is_primitive(v) == v.t \in {"null", "bool", "num", "str"}

\* serde_json's string escaping (format_escaped_str), on the model's alphabet
json_escape_char(c) ==
    CASE c = BACKSLASH -> <<BACKSLASH, BACKSLASH>>
      [] c = QUOTE -> <<BACKSLASH, QUOTE>>
      [] c = NL -> <<BACKSLASH, "n">>
      [] c = CR -> <<BACKSLASH, "r">>
      [] c = TAB -> <<BACKSLASH, "t">>
      [] c = FF -> <<BACKSLASH, "f">>
      [] OTHER -> <<c>>

RECURSIVE json_escape(_)
json_escape(s) ==
    IF s = <<>> THEN <<>> ELSE json_escape_char(s[1]) \o json_escape(Tail(s))

json_string(s) == <<QUOTE>> \o json_escape(s) \o <<QUOTE>>

\* serde_json::to_string: compact JSON
RECURSIVE to_string(_)
to_string(v) ==
    CASE v.t = "null" -> STR_null
      [] v.t = "bool" -> (IF v.b THEN STR_true ELSE STR_false)
      [] v.t = "num" -> number_to_string(v.n)
      [] v.t = "str" -> json_string(v.s)
      [] v.t = "arr" ->
            <<"[">> \o join([i \in 1..Len(v.a) |-> to_string(v.a[i])], <<",">>)
                \o <<"]">>
      [] v.t = "obj" ->
            <<"{">>
                \o join([i \in 1..Len(v.e) |->
                            json_string(v.e[i][1]) \o <<":">> \o to_string(v.e[i][2])],
                        <<",">>)
                \o <<"}">>

\* format_scalar with every string emitted verbatim
format_scalar_verbatim(v, delimiter) ==
    CASE v.t = "null" -> STR_null
      [] v.t = "bool" -> (IF v.b THEN STR_true ELSE STR_false)
      [] v.t = "num" -> format_number(v.n)
      [] v.t = "str" -> v.s
      [] OTHER -> to_string(v)

format_scalar(v, delimiter) ==
    CASE v.t = "null" -> STR_null
      [] v.t = "bool" -> (IF v.b THEN STR_true ELSE STR_false)
      [] v.t = "num" -> format_number(v.n)
      [] v.t = "str" ->
            IF needs_quoting(v.s, delimiter)
            THEN <<QUOTE>> \o escape_string(v.s) \o <<QUOTE>>
            ELSE v.s
      [] OTHER -> to_string(v)

----------------------------------------------------------------------------
(* Tabular detection *)

\* serde_json::Map::get: the value under key, or "none"
map_get(e, key) ==
    IF \E i \in 1..Len(e) : e[i][1] = key
    THEN [some |-> TRUE, v |-> e[CHOOSE i \in 1..Len(e) : e[i][1] = key][2]]
    ELSE [some |-> FALSE]

\* detect_tabular with the keys of a row compared position by position
detect_tabular_positional(arr) ==
    IF arr = <<>> \/ arr[1].t # "obj" THEN [some |-> FALSE]
    ELSE
    LET first == arr[1].e
        keys == [i \in 1..Len(first) |-> first[i][1]]
    IN  IF keys = <<>> \/ ~(\A i \in 1..Len(first) : is_primitive(first[i][2]))
        THEN [some |-> FALSE]
        ELSE IF \A j \in 2..Len(arr) :
                    /\ arr[j].t = "obj"
                    /\ Len(arr[j].e) = Len(keys)
                    /\ \A i \in 1..Len(keys) :
                          /\ arr[j].e[i][1] = keys[i]
                          /\ is_primitive(arr[j].e[i][2])
        THEN [some |-> TRUE, keys |-> keys]
        ELSE [some |-> FALSE]

\* detect_tabular with a key that a later row lacks passed over
detect_tabular_lenient(arr) ==
    IF arr = <<>> \/ arr[1].t # "obj" THEN [some |-> FALSE]
    ELSE
    LET first == arr[1].e
        keys == [i \in 1..Len(first) |-> first[i][1]]
    IN  IF keys = <<>> \/ ~(\A i \in 1..Len(first) : is_primitive(first[i][2]))
        THEN [some |-> FALSE]
        ELSE IF \A j \in 2..Len(arr) :
                    /\ arr[j].t = "obj"
                    /\ Len(arr[j].e) = Len(keys)
                    /\ \A i \in 1..Len(keys) :
                          map_get(arr[j].e, keys[i]).some =>
                              is_primitive(map_get(arr[j].e, keys[i]).v)
        THEN [some |-> TRUE, keys |-> keys]
        ELSE [some |-> FALSE]

\* detect_tabular: the field names (the first element's keys), or none
detect_tabular(arr) ==
    IF arr = <<>> \/ arr[1].t # "obj" THEN [some |-> FALSE]
    ELSE
    LET first == arr[1].e
        keys == [i \in 1..Len(first) |-> first[i][1]]
    IN  IF keys = <<>> \/ ~(\A i \in 1..Len(first) : is_primitive(first[i][2]))
        THEN [some |-> FALSE]
        ELSE IF \A j \in 2..Len(arr) :
                    /\ arr[j].t = "obj"
                    /\ Len(arr[j].e) = Len(keys)
                    /\ \A i \in 1..Len(keys) :
                          /\ map_get(arr[j].e, keys[i]).some
                          /\ is_primitive(map_get(arr[j].e, keys[i]).v)
        THEN [some |-> TRUE, keys |-> keys]
        ELSE [some |-> FALSE]

\* the rows of the tabular form: for each element that is an object, the
\* scalar-formatted value under each field in turn, that of Null where the
\* element has no such key (`missing` records that this fallback was taken)
tabular_rows(arr, fields, o) ==
    LET objs == SelectSeq(arr, LAMBDA item : item.t = "obj")
        cell(map, f) ==
            LET got == map_get(map, f)
            IN  [text |-> format_scalar(IF got.some THEN got.v ELSE Null, o.delimiter),
                 missing |-> ~got.some]
    IN  [j \in 1..Len(objs) |->
            [i \in 1..Len(fields) |-> cell(objs[j].e, fields[i])]]

----------------------------------------------------------------------------
(* Key folding *)

\* the folding loop with the bound compared as chain.len() - 1 <= flatten_depth
RECURSIVE fold_loop_one_more(_, _, _)
fold_loop_one_more(chain, current, o) ==
    IF /\ Len(chain) - 1 <= o.flatten_depth
       /\ current.t = "obj"
       /\ Len(current.e) = 1
       /\ is_valid_identifier(current.e[1][1])
       /\ ~needs_quoting(current.e[1][1], o.delimiter)
    THEN fold_loop_one_more(Append(chain, current.e[1][1]), current.e[1][2], o)
    ELSE [chain |-> chain, current |-> current]

\* the `while chain.len() - 1 < opts.flatten_depth` loop of encode_object
RECURSIVE fold_loop(_, _, _)
fold_loop(chain, current, o) ==
    IF /\ Len(chain) - 1 < o.flatten_depth
       /\ current.t = "obj"
       /\ Len(current.e) = 1
       /\ is_valid_identifier(current.e[1][1])
       /\ ~needs_quoting(current.e[1][1], o.delimiter)
    THEN fold_loop(Append(chain, current.e[1][1]), current.e[1][2], o)
    ELSE [chain |-> chain, current |-> current]

\* the chain encode_object builds for one entry, and the value it stops at;
\* a chain of one segment is an entry emitted unfolded
fold(key, v, o) ==
    IF o.key_folding = "Safe" /\ is_valid_identifier(key)
    THEN fold_loop(<<key>>, v, o)
    ELSE [chain |-> <<key>>, current |-> v]

----------------------------------------------------------------------------
(* Encoders *)

\* the `[{n}{dsym}]` of the array headers; n is printed in decimal
array_header(n, o) ==
    <<"[">> \o decimal(BitsOf(n)) \o header_symbol(o.delimiter) \o <<"]">>

\* the scalar-formatted elements joined with a comma whatever the delimiter
joined_scalars_comma(arr, o) ==
    join([i \in 1..Len(arr) |-> format_scalar(arr[i], o.delimiter)], <<",">>)

\* values.join(&delim_ch.to_string()) over the scalar-formatted elements
joined_scalars(arr, o) ==
    join([i \in 1..Len(arr) |-> format_scalar(arr[i], o.delimiter)],
         <<delimiter_char(o.delimiter)>>)

\* the Value::Array arm of the expanded list: a nested array item
nested_array_item(inner, depth, o, child_indent) ==
    IF \A i \in 1..Len(inner) : is_primitive(inner[i])
    THEN child_indent \o <<"-", " ">> \o array_header(Len(inner), o)
            \o <<":", " ">> \o joined_scalars(inner, o)
    ELSE child_indent \o <<"-", " ">> \o array_header(Len(inner), o) \o <<":">>
            \o concat([i \in 1..Len(inner) |->
                        <<NL>> \o repeat(" ", (depth + 2) * o.indent) \o <<"-", " ">>
                            \o format_scalar(inner[i], o.delimiter)])

\* the splice of an object item's encoding onto the `- ` marker
splice(obj_out, depth, o, child_indent) ==
    LET first_newline == find(obj_out, NL)
    IN  IF first_newline # 0
        THEN child_indent \o <<"-", " ">>
                \o trim_start(SubSeq(obj_out, 1, first_newline - 1))
                \o SubSeq(obj_out, first_newline, Len(obj_out))
        ELSE child_indent \o <<"-", " ">> \o trim_start(obj_out)

RECURSIVE encode_object(_, _, _)
RECURSIVE encode_field(_, _, _, _, _)
RECURSIVE encode_array_field(_, _, _, _, _)

\* one element of the expanded list form (without the newline before it)
list_item(item, depth, o, child_indent) ==
    CASE item.t = "obj" /\ item.e # <<>> ->
            splice(encode_object(item.e, depth + 2, o), depth, o, child_indent)
      [] item.t = "obj" /\ item.e = <<>> -> child_indent \o <<"-">>
      [] item.t = "arr" -> nested_array_item(item.a, depth, o, child_indent)
      [] OTHER -> child_indent \o <<"-", " ">> \o format_scalar(item, o.delimiter)

encode_array_field(key, arr, depth, o, indent) ==
    LET n == Len(arr)
        delim == <<delimiter_char(o.delimiter)>>
        child_indent == repeat(" ", (depth + 1) * o.indent)
        tab == detect_tabular(arr)
    IN  IF n = 0 THEN indent \o key \o array_header(0, o) \o <<":">>
        ELSE IF \A i \in 1..n : is_primitive(arr[i])
        THEN indent \o key \o array_header(n, o) \o <<":", " ">>
                \o joined_scalars(arr, o)
        ELSE IF tab.some
        THEN LET fields == tab.keys
                 field_header ==
                    join([i \in 1..Len(fields) |-> format_key(fields[i], o.delimiter)],
                         delim)
                 rows == tabular_rows(arr, fields, o)
                 row(j) == join([i \in 1..Len(fields) |-> rows[j][i].text], delim)
             IN  indent \o key \o array_header(n, o)
                    \o <<"{">> \o field_header \o <<"}">> \o <<":">>
                    \o concat([j \in 1..Len(rows) |-> <<NL>> \o child_indent \o row(j)])
        ELSE indent \o key \o array_header(n, o) \o <<":">>
                \o concat([j \in 1..n |->
                            <<NL>> \o list_item(arr[j], depth, o, child_indent)])

encode_field(key, v, depth, o, indent) ==
    LET fkey == format_key(key, o.delimiter)
    IN  CASE v.t = "obj" /\ v.e # <<>> ->
                indent \o fkey \o <<":">> \o <<NL>> \o encode_object(v.e, depth + 1, o)
          [] v.t = "obj" /\ v.e = <<>> -> indent \o fkey \o <<":">>
          [] v.t = "arr" -> encode_array_field(fkey, v.a, depth, o, indent)
          [] OTHER ->
                indent \o fkey \o <<":", " ">> \o format_scalar(v, o.delimiter)

encode_object(map, depth, o) ==
    LET indent == repeat(" ", depth * o.indent)
        entry(key, v) ==
            LET f == fold(key, v, o)
            IN  IF Len(f.chain) > 1
                THEN encode_field(join(f.chain, <<".">>), f.current, depth, o, indent)
                ELSE encode_field(key, v, depth, o, indent)
    IN  join([i \in 1..Len(map) |-> entry(map[i][1], map[i][2])], <<NL>>)

encode_value(v, depth, o, is_root) ==
    CASE v.t = "obj" -> encode_object(v.e, depth, o)
      [] v.t = "arr" -> encode_array_field(<<>>, v.a, depth, o, <<>>)
      [] OTHER -> IF is_root THEN format_scalar(v, o.delimiter) ELSE <<>>

\* `while out.ends_with('\n') { out.pop(); }`
RECURSIVE strip_trailing_newlines(_)
strip_trailing_newlines(s) ==
    IF s # <<>> /\ s[Len(s)] = NL
    THEN strip_trailing_newlines(SubSeq(s, 1, Len(s) - 1))
    ELSE s

encode_toon(v, o) == strip_trailing_newlines(encode_value(v, 0, o, TRUE))

----------------------------------------------------------------------------
(* The calls the model makes: options and input trees *)

MaxFlatten == 2
MaxChain == 3
MaxFields == 2
MaxArr == 2

\* ToonOptions::default()
DefaultOpts ==
    [delimiter |-> "Comma", indent |-> 2, key_folding |-> "Off",
     flatten_depth |-> USIZE_MAX]

\* indent widths: none, and the default
Indents == {0, DefaultOpts.indent}

\* every delimiter and indent width; folding off (with the default depth), or
\* safe with a depth of 0..MaxFlatten or the default
Opts ==
    {[delimiter |-> d, indent |-> i, key_folding |-> "Off",
      flatten_depth |-> USIZE_MAX] : d \in Delimiters, i \in Indents}
    \cup
    {[delimiter |-> d, indent |-> i, key_folding |-> "Safe", flatten_depth |-> f] :
        d \in Delimiters, i \in Indents, f \in (0..MaxFlatten) \cup {USIZE_MAX}}

N1 == Num(PosInt(BitsOf(1)))
N30 == Num(PosInt(BitsOf(30)))
N3_14 == Num(Float(FALSE, BitsOf(3), <<"1", "4">>))
NegZero == Num(Float(TRUE, <<>>, <<>>))

\* scalars: each kind, and strings that are empty, a literal, hold the
\* delimiters, or end in a newline
ScalarPool ==
    {Null, Bool(TRUE), N30, N3_14, NegZero,
     Str(<<"v">>), Str(<<>>), Str(STR_true), Str(<<"x", ",", "y">>),
     Str(<<"p", "|", TAB>>), Str(<<"l", NL>>)}

FewScalars == {Null, N1, Str(<<"l", NL>>)}

\* keys: identifiers, an identifier that must be quoted, a key with a space,
\* keys that are quoted under one delimiter or all, a key that starts with a
\* form feed, and the empty key
KeyPool ==
    {<<"a">>, <<"b">>, STR_true, <<"c", " ", "d">>, <<"p", "|", "q">>,
     <<"l", NL, "m">>, <<FF, "k">>, <<>>}

FewKeys == {<<"a">>, <<"p", "|", "q">>, <<"l", NL, "m">>}

ChainKeys == {<<"a">>, STR_true, <<"c", " ", "d">>}

\* the sequences over S of length lo..hi
SeqsOf(S, lo, hi) == UNION {[1..n -> S] : n \in lo..hi}

\* the objects of at most n entries, keys (distinct) from K, values from V
ObjectsOf(K, V, n) ==
    {Obj([i \in 1..Len(ks) |-> <<ks[i], vs[i]>>]) :
        <<ks, vs>> \in
            {p \in SeqsOf(K, 0, n) \X SeqsOf(V, 0, n) :
                /\ Len(p[1]) = Len(p[2])
                /\ \A i, j \in 1..Len(p[1]) : i # j => p[1][i] # p[1][j]}}

\* the object k1: {k2: {... kn: leaf}}
RECURSIVE ChainOf(_, _)
ChainOf(ks, leaf) ==
    IF Len(ks) = 1 THEN Obj(<< <<ks[1], leaf>> >>)
    ELSE Obj(<< <<ks[1], ChainOf(Tail(ks), leaf)>> >>)

AB == Obj(<< <<(<<"a">>), N1>>, <<(<<"b">>), Str(<<"x", ",", "y">>)>> >>)
BA == Obj(<< <<(<<"b">>), Null>>, <<(<<"a">>), Str(<<"l", NL>>)>> >>)
AC == Obj(<< <<(<<"a">>), N1>>, <<(<<"c", " ", "d">>), N1>> >>)
P1 == Obj(<< <<(<<"p", "|", "q">>), Str(<<"v">>)>> >>)
ANested == Obj(<< <<(<<"a">>), Obj(<< <<(<<"b">>), N1>> >>)>>, <<(<<"b">>), N30>> >>)
AEmpty == Obj(<< <<(<<"a">>), Obj(<<>>)>> >>)
FFKey == Obj(<< <<(<<FF, "k">>), Arr(<<>>)>>, <<(<<"a">>), N1>> >>)

\* what an array holds: scalars, arrays (empty, of primitives, of
\* composites), objects (empty, rows of two primitive fields in either key
\* order or with another key, with nested values, with a key starting in a
\* form feed)
ItemPool ==
    {Null, Str(<<"x", ",", "y">>),
     Arr(<<>>), Arr(<<N1, Str(<<"v">>)>>), Arr(<<N1, Arr(<<N1>>), AEmpty>>),
     Obj(<<>>), AB, BA, AC, ANested, FFKey}

\* what an array under a key holds
KeyedItemPool == {Str(<<"l", NL>>), Str(<<"x", ",", "y">>), Arr(<<>>), P1, AB, BA}

KeyedArrays ==
    {Obj(<< <<k, Arr(a)>> >>) :
        k \in {<<"a">>, <<"p", "|", "q">>}, a \in SeqsOf(KeyedItemPool, 0, MaxArr)}

Arrays == {Arr(a) : a \in SeqsOf(ItemPool, 0, MaxArr)}

\* the leaves of the single-key chains
LeafPool ==
    {Str(<<"v">>), AB, Arr(<<AEmpty, Null>>), Arr(<<N1, Str(<<"x", ",", "y">>)>>)}

Chains ==
    {ChainOf(ks, leaf) : ks \in SeqsOf(ChainKeys, 1, MaxChain + 1), leaf \in LeafPool}

\* the inputs of the tests of src/src/lib.rs that the families do not hold
TestFlattenDepth ==
    ChainOf(<< <<"a">>, <<"b">>, <<"c">>, <<"d">> >>, Str(<<"v", "a", "l">>))

Values ==
    ScalarPool
    \cup ObjectsOf(KeyPool, ScalarPool, 1)
    \cup ObjectsOf(FewKeys, FewScalars, MaxFields)
    \cup Arrays
    \cup KeyedArrays
    \cup Chains
    \cup {TestFlattenDepth}

----------------------------------------------------------------------------
(* encode_toon on every tree and every configuration *)

Init ==
    /\ value \in Values
    /\ opts \in Opts
    /\ out = <<>>
    /\ pc = "start"

Encode ==
    /\ pc = "start"
    /\ out' = encode_toon(value, opts)
    /\ pc' = "encode_toon"
    /\ UNCHANGED <<value, opts>>

Next == Encode

Spec == Init /\ [][Next]_vars

----------------------------------------------------------------------------
(* What the properties speak of *)

Done == pc = "encode_toon"

\* the lines of a text: the pieces between its newline characters
RECURSIVE Lines(_)
Lines(s) ==
    LET i == find(s, NL)
    IN  IF i = 0 THEN <<s>>
        ELSE <<SubSeq(s, 1, i - 1)>> \o Lines(SubSeq(s, i + 1, Len(s)))

LastLine(s) == Lines(s)[Len(Lines(s))]

Spaces(n) == [i \in 1..n |-> " "]

\* the delimiter symbol of an array header: nothing for comma, the
\* delimiter character for tab and pipe
Sym(d) == IF d = "Comma" THEN <<>> ELSE <<delimiter_char(d)>>

\* `<key>[n<sym>]`
Header(key, n, d) == key \o <<"[">> \o decimal(BitsOf(n)) \o Sym(d) \o <<"]">>

\* The chains of more than one segment that the encoding of a tree folds:
\* those of every object encode_object is called on, which are the root
\* object, the non-empty object a field holds, and the non-empty objects of
\* an expanded list.
RECURSIVE ObjectFolds(_, _)
RECURSIVE ValueFolds(_, _)
ValueFolds(v, o) ==
    CASE v.t = "obj" -> ObjectFolds(v.e, o)
      [] v.t = "arr" ->
            IF (\A i \in 1..Len(v.a) : is_primitive(v.a[i])) \/ detect_tabular(v.a).some
            THEN {}
            ELSE UNION {IF v.a[i].t = "obj" THEN ObjectFolds(v.a[i].e, o) ELSE {} :
                            i \in 1..Len(v.a)}
      [] OTHER -> {}

ObjectFolds(map, o) ==
    UNION {LET f == fold(map[i][1], map[i][2], o)
           IN  (IF Len(f.chain) > 1 THEN {f.chain} ELSE {}) \cup ValueFolds(f.current, o) :
                i \in 1..Len(map)}

Folds == ValueFolds(value, opts)

----------------------------------------------------------------------------
(* C1 *)

\* C1: with key folding Safe, no segment of a folded key, the first
\* included, is a string that needs quoting under the delimiter.
C1_FoldedSegmentsNeedNoQuoting ==
    (Done /\ opts.key_folding = "Safe") =>
        \A chain \in Folds :
            \A i \in 1..Len(chain) : ~needs_quoting(chain[i], opts.delimiter)

----------------------------------------------------------------------------
(* C3 *)

\* a single-key chain of identifier keys, none of which needs quoting, that
\* ends in a scalar: its keys and its leaf
RECURSIVE ChainKeysOf(_)
ChainKeysOf(v) ==
    IF v.t = "obj" /\ Len(v.e) = 1
    THEN <<v.e[1][1]>> \o ChainKeysOf(v.e[1][2])
    ELSE <<>>

RECURSIVE ChainLeafOf(_)
ChainLeafOf(v) == IF v.t = "obj" /\ Len(v.e) = 1 THEN ChainLeafOf(v.e[1][2]) ELSE v

IsPlainChain(v) ==
    /\ v.t = "obj"
    /\ Len(v.e) = 1
    /\ is_primitive(ChainLeafOf(v))
    /\ \A i \in 1..Len(ChainKeysOf(v)) :
          /\ is_valid_identifier(ChainKeysOf(v)[i])
          /\ ~needs_quoting(ChainKeysOf(v)[i], opts.delimiter)

\* the chain cut after every d hops: the first d+1 keys dot-joined on one
\* line, the remainder as a field one level deeper
RECURSIVE CutChain(_, _, _, _)
CutChain(ks, leaf, d, depth) ==
    IF Len(ks) - 1 <= d
    THEN Spaces(depth * opts.indent) \o join(ks, <<".">>) \o <<":", " ">>
            \o format_scalar(leaf, opts.delimiter)
    ELSE Spaces(depth * opts.indent) \o join(SubSeq(ks, 1, d + 1), <<".">>) \o <<":">>
            \o <<NL>> \o CutChain(SubSeq(ks, d + 2, Len(ks)), leaf, d, depth + 1)

\* C3: with key folding Safe and flatten depth d a folded key collapses at
\* most d hops, nothing is folded when d = 0, and a chain of more than d
\* hops is cut after d hops with its remainder one level deeper.
C3_FlattenDepthBoundsFolds ==
    (Done /\ opts.key_folding = "Safe") =>
        /\ \A chain \in Folds : Len(chain) - 1 <= opts.flatten_depth
        /\ (opts.flatten_depth = 0 => Folds = {})
        /\ (IsPlainChain(value) =>
                out = CutChain(ChainKeysOf(value), ChainLeafOf(value),
                               opts.flatten_depth, 0))
        /\ ((value = TestFlattenDepth /\ opts.flatten_depth = 1 /\ opts.indent = 2) =>
                out = <<"a", ".", "b", ":", NL,
                        " ", " ", "c", ".", "d", ":", " ", "v", "a", "l">>)

\* a chain of more hops than the flatten depth was cut
C3_Witness ==
    /\ Done
    /\ opts.key_folding = "Safe"
    /\ IsPlainChain(value)
    /\ opts.flatten_depth >= 1
    /\ Len(ChainKeysOf(value)) - 1 > opts.flatten_depth
    /\ Folds # {}
    /\ Len(Lines(out)) >= 2

----------------------------------------------------------------------------
(* The array at the root, or under the only key of the root object *)

HasArray ==
    \/ value.t = "arr"
    \/ (value.t = "obj" /\ Len(value.e) = 1 /\ value.e[1][2].t = "arr")

TheArray == IF value.t = "arr" THEN value.a ELSE value.e[1][2].a

\* its key as written in the header: none at the root
TheKey == IF value.t = "arr" THEN <<>> ELSE format_key(value.e[1][1], opts.delimiter)

Delim == <<delimiter_char(opts.delimiter)>>

----------------------------------------------------------------------------
(* C2 *)

\* every element is an object with the first element's key count and a
\* primitive value under each of the first element's keys
SameShapeRows(arr) ==
    /\ Len(arr) >= 1
    /\ \A j \in 1..Len(arr) :
          /\ arr[j].t = "obj"
          /\ Len(arr[j].e) = Len(arr[1].e)
          /\ \A i \in 1..Len(arr[1].e) :
                \E m \in 1..Len(arr[j].e) :
                    /\ arr[j].e[m][1] = arr[1].e[i][1]
                    /\ is_primitive(arr[j].e[m][2])

ValueUnder(map, key) == map[CHOOSE m \in 1..Len(map) : map[m][1] = key][2]

\* the tabular form: the header with the first element's keys, and one row
\* per element with its values in that key order, one level deeper
TabularText(key, arr) ==
    LET ks == [i \in 1..Len(arr[1].e) |-> arr[1].e[i][1]]
    IN  Header(key, Len(arr), opts.delimiter)
            \o <<"{">>
            \o join([i \in 1..Len(ks) |-> format_key(ks[i], opts.delimiter)], Delim)
            \o <<"}", ":">>
            \o concat([j \in 1..Len(arr) |->
                        <<NL>> \o Spaces(opts.indent)
                            \o join([i \in 1..Len(ks) |->
                                        format_scalar(ValueUnder(arr[j].e, ks[i]),
                                                      opts.delimiter)],
                                    Delim)])

\* C2 as stated: every array of n >= 1 objects that share the first element's
\* key count and hold primitives under its keys is written in the tabular
\* form, with exactly n lines after the header.
C2_Original ==
    (Done /\ HasArray /\ SameShapeRows(TheArray)) =>
        /\ out = TabularText(TheKey, TheArray)
        /\ Len(Lines(out)) = Len(TheArray) + 1

\* C2, amended: the same for arrays whose elements are non-empty objects.
C2_TabularForNonEmptyRows ==
    (Done /\ HasArray /\ SameShapeRows(TheArray) /\ TheArray[1].e # <<>>) =>
        /\ out = TabularText(TheKey, TheArray)
        /\ Len(Lines(out)) = Len(TheArray) + 1

\* two rows with the same two keys in different orders, under a quoted key
C2_Witness ==
    /\ Done
    /\ value.t = "obj"
    /\ HasArray
    /\ SameShapeRows(TheArray)
    /\ Len(TheArray) = 2
    /\ Len(TheArray[1].e) = 2
    /\ TheArray[1].e[1][1] # TheArray[2].e[1][1]
    /\ TheKey[1] = QUOTE

----------------------------------------------------------------------------
(* C5 *)

IsScalarObject(v) ==
    v.t = "obj" /\ \A i \in 1..Len(v.e) : is_primitive(v.e[i][2])

\* C5: a root object of scalars is written as one line per entry, in key
\* order, each `<formatted-key>: <formatted-scalar>` with no indentation.
C5_OneLinePerScalarEntry ==
    (Done /\ IsScalarObject(value)) =>
        IF value.e = <<>> THEN out = <<>>
        ELSE Lines(out) =
                [i \in 1..Len(value.e) |->
                    format_key(value.e[i][1], opts.delimiter) \o <<":", " ">>
                        \o format_scalar(value.e[i][2], opts.delimiter)]

\* two entries, a newline in the first key and in the second value
C5_Witness ==
    /\ Done
    /\ IsScalarObject(value)
    /\ Len(value.e) = 2
    /\ \E i \in 1..Len(value.e[1][1]) : value.e[1][1][i] = NL
    /\ value.e[2][2].t = "str"
    /\ \E i \in 1..Len(value.e[2][2].s) : value.e[2][2].s[i] = NL
    /\ opts.key_folding = "Safe"

----------------------------------------------------------------------------
(* C6 *)

IsPrimitiveArray(arr) ==
    Len(arr) >= 1 /\ \A i \in 1..Len(arr) : is_primitive(arr[i])

\* `<key>[n<sym>]: v1<d>v2<d>...vn`
InlineText(key, arr) ==
    Header(key, Len(arr), opts.delimiter) \o <<":", " ">>
        \o join([i \in 1..Len(arr) |-> format_scalar(arr[i], opts.delimiter)], Delim)

\* a chain of single-key objects that ends in an array of primitives
IsArrayChain(v) ==
    /\ v.t = "obj"
    /\ Len(v.e) = 1
    /\ ChainLeafOf(v).t = "arr"
    /\ IsPrimitiveArray(ChainLeafOf(v).a)

\* C6: an array of n >= 1 primitives is the single line
\* `<key>[n<sym>]: v1<d>v2<d>...vn`: at the root (no key), under the only
\* key of the root object, and, without key folding, under the innermost
\* key of a chain of objects, where it is the last line, indented by its
\* depth.
C6_PrimitiveArrayInline ==
    Done =>
        /\ (HasArray /\ IsPrimitiveArray(TheArray)) =>
                /\ out = InlineText(TheKey, TheArray)
                /\ find(out, NL) = 0
        /\ (opts.key_folding = "Off" /\ IsArrayChain(value)) =>
                LET ks == ChainKeysOf(value)
                IN  /\ Len(Lines(out)) = Len(ks)
                    /\ LastLine(out) =
                            Spaces((Len(ks) - 1) * opts.indent)
                                \o InlineText(format_key(ks[Len(ks)], opts.delimiter),
                                              ChainLeafOf(value).a)

\* two strings, one with a newline, under a key that the pipe delimiter
\* makes quoted
C6_Witness ==
    /\ Done
    /\ value.t = "obj"
    /\ HasArray
    /\ Len(TheArray) = 2
    /\ \A i \in 1..2 : TheArray[i].t = "str"
    /\ \E i \in 1..Len(TheArray[1].s) : TheArray[1].s[i] = NL
    /\ opts.delimiter = "Pipe"
    /\ TheKey[1] = QUOTE

----------------------------------------------------------------------------
(* C8 *)

\* C8: the returned text does not end in a newline, and the stripping of
\* trailing newlines removed nothing of what the encoders wrote.
C8_NoTrailingNewline ==
    Done =>
        /\ (out = <<>> \/ out[Len(out)] # NL)
        /\ out = encode_value(value, 0, opts, TRUE)

\* the last thing written is a string that ends in a newline
C8_Witness ==
    /\ Done
    /\ \/ (value.t = "str" /\ value.s # <<>> /\ value.s[Len(value.s)] = NL)
       \/ /\ IsScalarObject(value)
          /\ value.e # <<>>
          /\ value.e[Len(value.e)][2] = Str(<<"l", NL>>)

----------------------------------------------------------------------------
(* C9 *)

\* C9: an empty array is `<key>[0<sym>]:` with nothing after the colon, as
\* the root, as a field, and as the (last) element of an expanded list,
\* where it is the item `- [0<sym>]:`.
C9_EmptyArrayBare ==
    Done =>
        /\ (HasArray /\ TheArray = <<>>) =>
                out = Header(TheKey, 0, opts.delimiter) \o <<":">>
        /\ (value.t = "arr" /\ value.a # <<>> /\ value.a[Len(value.a)] = Arr(<<>>)) =>
                LastLine(out) =
                    Spaces(opts.indent) \o <<"-", " ">>
                        \o Header(<<>>, 0, opts.delimiter) \o <<":">>

----------------------------------------------------------------------------
(* C10 *)

\* the root array is written in the expanded list form
IsExpanded(arr) ==
    /\ arr # <<>>
    /\ ~(\A i \in 1..Len(arr) : is_primitive(arr[i]))
    /\ ~detect_tabular(arr).some

\* an object item with only the indentation of its first line removed
ExactItem(item) ==
    LET obj_out == encode_object(item.e, 2, opts)
    IN  Spaces(opts.indent) \o <<"-", " ">>
            \o SubSeq(obj_out, 2 * opts.indent + 1, Len(obj_out))

\* C10: in the expanded list form a non-empty object's item is the child
\* indentation, `- `, and the object's encoding from its first formatted
\* key on, character for character.
C10_SpliceKeepsKey ==
    (Done /\ value.t = "arr" /\ IsExpanded(value.a)) =>
        out = Header(<<>>, Len(value.a), opts.delimiter) \o <<":">>
                \o concat([j \in 1..Len(value.a) |->
                            <<NL>> \o
                            (IF value.a[j].t = "obj" /\ value.a[j].e # <<>>
                             THEN ExactItem(value.a[j])
                             ELSE list_item(value.a[j], 0, opts, Spaces(opts.indent)))])

----------------------------------------------------------------------------
(* format_key and format_scalar on every short string *)

MaxLen == 3

QuoteAlphabet == {"-", "0", "7", ".", "e", "+", "a", " ", ",", "|", NL, QUOTE}

\* longer strings: the literals and their neighbours, numbers with every
\* part of the grammar, strings one character away from a number, and the
\* characters that force quotes
LongStrings ==
    {STR_true, STR_false, STR_null,
     <<"T", "r", "u", "e">>, <<"n", "u", "l", "l", "s">>,
     <<"1", "e", "+", "7">>, <<"-", "1", ".", "5", "e", "7">>,
     <<"0", ".", "7", "E", "-", "7">>, <<"1", ".", "5", ".", "7">>,
     <<"1", "e", "+", "7", "a">>, <<"7", ".", "0", "e", "+">>,
     <<"0", "0", "7", "a">>, <<"a", ":", "b">>, <<"x", "[", "0", "]">>,
     <<"{", "a", "}", "b">>, <<"a", BACKSLASH, "b", "c">>,
     <<TAB, "a", "b", "c">>, <<"a", CR, "b", "c">>, <<FF, "a", "b", "c">>}

Strings == SeqsOf(QuoteAlphabet, 0, MaxLen) \cup LongStrings

InitQuote ==
    /\ value \in {Str(s) : s \in Strings}
    /\ opts \in {[DefaultOpts EXCEPT !.delimiter = d] : d \in Delimiters}
    /\ out = <<>>
    /\ pc = "start"

FormatKey ==
    /\ pc = "start"
    /\ out' = format_key(value.s, opts.delimiter)
    /\ pc' = "format_key"
    /\ UNCHANGED <<value, opts>>

FormatScalar ==
    /\ pc = "start"
    /\ out' = format_scalar(value, opts.delimiter)
    /\ pc' = "format_scalar"
    /\ UNCHANGED <<value, opts>>

NextQuote == FormatKey \/ FormatScalar

SpecQuote == InitQuote /\ [][NextQuote]_vars

----------------------------------------------------------------------------
(* C4 *)

AllDigits(s, lo, hi) == lo <= hi /\ \A i \in lo..hi : s[i] \in Digit

\* the numeric-literal grammar: an optional `-`, digits, an optional `.`
\* with digits, an optional exponent [eE][+-]?digits. The digits of the
\* integer part end at a, those of the fraction at b.
IsNumericLiteral(s) ==
    \E sg \in 0..1, a \in 1..Len(s), b \in 1..Len(s) :
        /\ a <= b
        /\ (sg = 1 => s[1] = "-")
        /\ AllDigits(s, sg + 1, a)
        /\ (b = a \/ (s[a + 1] = "." /\ AllDigits(s, a + 2, b)))
        /\ \/ b = Len(s)
           \/ /\ s[b + 1] \in {"e", "E"}
              /\ \E es \in 0..1 :
                    /\ b + 1 + es <= Len(s)
                    /\ (es = 1 => s[b + 2] \in {"+", "-"})
                    /\ AllDigits(s, b + 2 + es, Len(s))

\* s written bare reads as a number, a boolean or null, or is nothing at all
MisreadBare(s) ==
    s = <<>> \/ s \in {STR_true, STR_false, STR_null} \/ IsNumericLiteral(s)

QuoteDone == pc \in {"format_key", "format_scalar"}

\* C4: a string that needs no quoting is not empty, not true, false or null,
\* and not a numeric literal; format_key and format_scalar write a string
\* verbatim exactly when it needs no quoting, and in double quotes otherwise.
C4_QuotingLaw ==
    QuoteDone =>
        /\ ~needs_quoting(value.s, opts.delimiter) => ~MisreadBare(value.s)
        /\ (out = value.s) <=> ~needs_quoting(value.s, opts.delimiter)
        /\ out = value.s => ~MisreadBare(value.s)
        /\ out # value.s =>
                /\ Len(out) >= Len(value.s) + 2
                /\ out[1] = QUOTE
                /\ out[Len(out)] = QUOTE

\* a string that starts like a number and was written bare
C4_Witness ==
    /\ QuoteDone
    /\ out = value.s
    /\ Len(value.s) >= 2
    /\ value.s[1] \in Digit
    /\ value.s[2] \in {"e", "."}

----------------------------------------------------------------------------
(* format_number on integers around the widths of f64 and i64 *)

MaxSmall == 12
MaxDelta == 5

\* 0..MaxSmall, and 2^e + d for d in 0..MaxDelta around 2^31, the 53 bits of
\* an f64 mantissa, and 2^62
Magnitudes ==
    {BitsOf(d) : d \in 0..MaxSmall}
    \cup {Pow2Plus(e, d) : e \in {31, 52, 53, 54, 62}, d \in 0..MaxDelta}

Numbers ==
    {PosInt(b) : b \in Magnitudes}
    \cup {NegInt(b) : b \in Magnitudes \ {<<>>}}
    \cup {Float(neg, BitsOf(m), frac) :
            neg \in BOOLEAN, m \in 0..3, frac \in {<<>>, <<"5">>, <<"2", "5">>}}

InitNum ==
    /\ value \in {Num(n) : n \in Numbers}
    /\ opts = DefaultOpts
    /\ out = <<>>
    /\ pc = "start"

FormatNumber ==
    /\ pc = "start"
    /\ out' = format_number(value.n)
    /\ pc' = "format_number"
    /\ UNCHANGED <<value, opts>>

NextNum == FormatNumber

SpecNum == InitNum /\ [][NextNum]_vars

----------------------------------------------------------------------------
(* C7 *)

\* the number has no fractional part and a magnitude below 2^63
IsIntegralI64(n) == n.frac = <<>> /\ Len(n.mag) <= I64_BITS

\* C7: an integral number within the i64 range is printed as the integer it
\* is: `-` when negative, then its decimal digits; zero is `0`.
C7_IntegerPrintedExactly ==
    (pc = "format_number" /\ IsIntegralI64(value.n)) =>
        out = (IF value.n.neg /\ value.n.mag # <<>> THEN <<"-">> ELSE <<>>)
                \o decimal(value.n.mag)

----------------------------------------------------------------------------
(* detect_tabular and the tabular rows on arrays of every shape *)

MaxRows == 3

\* a string with both non-tab delimiters and a double quote
Tricky == Str(<<"p", "|", QUOTE, ",">>)

AQ == Obj(<< <<(<<"a">>), Tricky>> >>)
ABP ==
    Obj(<< <<(<<"a">>), N1>>, <<(<<"b">>), Str(<<TAB>>)>>, <<(<<"p", "|", "q">>), Tricky>> >>)

\* what the arrays hold: a scalar, the empty object, objects of one, two and
\* three primitive fields (the same keys in two orders, other keys of the
\* same count), and objects with a nested value
RowPool == {Null, Obj(<<>>), P1, AQ, AB, BA, AC, ABP, AEmpty, ANested}

InitTab ==
    /\ value \in {Arr(a) : a \in SeqsOf(RowPool, 0, MaxRows)}
    /\ opts \in {[DefaultOpts EXCEPT !.delimiter = d] : d \in Delimiters}
    /\ out = <<>>
    /\ pc = "start"

DetectTabular ==
    /\ pc = "start"
    /\ out' = detect_tabular(value.a)
    /\ pc' = "detect_tabular"
    /\ UNCHANGED <<value, opts>>

\* the `for item in arr` loop that follows an accepting detect_tabular
TabularRows ==
    /\ pc = "detect_tabular"
    /\ out.some
    /\ out' = [some |-> TRUE, keys |-> out.keys,
               rows |-> tabular_rows(value.a, out.keys, opts)]
    /\ pc' = "rows"
    /\ UNCHANGED <<value, opts>>

NextTab == DetectTabular \/ TabularRows

SpecTab == InitTab /\ [][NextTab]_vars

----------------------------------------------------------------------------
(* C11 *)

KeySet(map) == {map[i][1] : i \in 1..Len(map)}

KeysOf(map) == [i \in 1..Len(map) |-> map[i][1]]

\* the cells of a line from position i: one more than the delimiters d that
\* stand outside double quotes (a backslash in quotes escapes what follows)
RECURSIVE CellsFrom(_, _, _, _)
CellsFrom(line, i, d, quoted) ==
    IF i > Len(line) THEN 1
    ELSE IF quoted
    THEN IF line[i] = BACKSLASH THEN CellsFrom(line, i + 2, d, TRUE)
         ELSE CellsFrom(line, i + 1, d, line[i] # QUOTE)
    ELSE IF line[i] = d THEN 1 + CellsFrom(line, i + 1, d, FALSE)
    ELSE CellsFrom(line, i + 1, d, line[i] = QUOTE)

CellCount(line) == CellsFrom(line, 1, delimiter_char(opts.delimiter), FALSE)

Accepted == pc \in {"detect_tabular", "rows"} /\ out.some

\* C11: when detect_tabular accepts an array, it returns the first element's
\* keys in order, and every element is an object whose key set is that of
\* the first element and whose values are all primitives; the rows then
\* written are one per element, each with one cell per field name (counted
\* in the joined line as in the joined header), the cell of field i being
\* the scalar formatting of the element's value under that key, never the
\* fallback for a missing key.
C11_AcceptedRowsAreUniform ==
    Accepted =>
        LET arr == value.a
        IN  /\ arr # <<>>
            /\ arr[1].t = "obj"
            /\ out.keys = KeysOf(arr[1].e)
            /\ out.keys # <<>>
            /\ \A j \in 1..Len(arr) :
                  /\ arr[j].t = "obj"
                  /\ KeySet(arr[j].e) = KeySet(arr[1].e)
                  /\ \A m \in 1..Len(arr[j].e) : is_primitive(arr[j].e[m][2])
            /\ CellCount(join([i \in 1..Len(out.keys) |->
                                format_key(out.keys[i], opts.delimiter)], Delim))
                    = Len(out.keys)
            /\ pc = "rows" =>
                  /\ Len(out.rows) = Len(arr)
                  /\ \A j \in 1..Len(out.rows) :
                        /\ Len(out.rows[j]) = Len(out.keys)
                        /\ \A i \in 1..Len(out.keys) :
                              /\ ~out.rows[j][i].missing
                              /\ out.rows[j][i].text =
                                    format_scalar(ValueUnder(arr[j].e, out.keys[i]),
                                                  opts.delimiter)
                        /\ CellCount(join([i \in 1..Len(out.keys) |->
                                            out.rows[j][i].text], Delim))
                                = Len(out.keys)

\* rows written for elements that hold the same keys in different orders,
\* with a cell that contains the delimiter
C11_Witness ==
    /\ pc = "rows"
    /\ Len(value.a) >= 2
    /\ KeysOf(value.a[1].e) # KeysOf(value.a[2].e)
    /\ \E i \in 1..Len(out.keys) :
          find(out.rows[1][i].text, delimiter_char(opts.delimiter)) # 0

====
